---- MODULE Spec2Model ----
(***************************************************************************)
(* Model of src/main.py: a Streamlit script that builds a YouTube API      *)
(* client, pages through a video search collecting channel ids, looks the  *)
(* channels up in batches, keeps the recently created ones, sorts them by   *)
(* subscriber count and renders a table with a CSV download.                *)
(*                                                                         *)
(* One behaviour is one execution of the script.  The remote service is    *)
(* the environment: every response it can give is drawn with \E.           *)
(* Python's None is the empty sequence, a present value x is <<x>>.         *)
(* Strings returned by the service (dates, counts) stay strings until the  *)
(* code parses them (isoparse, int).  Creation timestamps the service      *)
(* returns are in UTC ("...Z"), as the API documents, so every parsed one  *)
(* compares with the cutoff; times are integers (days).                    *)
(***************************************************************************)
EXTENDS Integers, Sequences, FiniteSets, TLC

(* ---- bounds of the model ---- *)
\* largest value of the max_videos slider that is explored
MaxVideos == 3
\* largest number of items the service puts in one search page
MaxPageItems == 2
\* main.py:11 is 50; scaled down
MAX_VIDEO_RESULTS_PER_PAGE == 2
\* main.py:14 is 50; scaled down so that several batches happen
MAX_CHANNELS_TO_FETCH_PER_CALL == 2

(* ---- domains ---- *)
ChannelIds == {"UCa", "UCb", "UCc"}
\* datetime.now(timezone.utc), in days
today == 2
Times == 0..today
\* values of the new_channel_days slider
NewChannelDays == {1, 2}
SubscriberCounts == {1, 2}

None == <<>>
Some(x) == <<x>>
Truthy(o) == o # None /\ o # Some("")

Min(a, b) == IF a <= b THEN a ELSE b
Range(s) == {s[k] : k \in DOMAIN s}
\* all orders in which the elements of a set can be listed
Perms(S) == {s \in [1..Cardinality(S) -> S] : Range(s) = S}
\* all sequences over S of length at most n
SeqsUpTo(S, n) == UNION {[1..m -> S] : m \in 0..n}

VARIABLES
    api_key,               \* sidebar text input
    new_channel_days,      \* sidebar slider
    pc,                    \* position of the script
    youtube_service,       \* None or Some("youtube")
    build_attempted,       \* build() was called
    messages,              \* kinds of st.info / st.warning / st.error shown
    parse_warnings,        \* st.warning of line 150: <<channel id, raw string>>
    max_results,           \* search_popular_videos: parameter
    results_fetched,       \* search_popular_videos: local
    channel_ids,           \* search_popular_videos: local set
    video_ids,             \* search_popular_videos: local list (one entry per counted item)
    next_page_token,       \* search_popular_videos: local
    num_to_fetch,          \* maxResults of the last search request
    search_requests,       \* "none", "one", "many": search requests issued
    collected,             \* some search page added a channel id
    channel_ids_to_check,  \* result of search_popular_videos
    i,                     \* get_channel_details: batch start (0-based)
    channel_data,          \* get_channel_details: local list
    channel_response,      \* get_channel_details: last response
    lookup_requests,       \* batch starts for which a lookup was requested
    all_channel_details,   \* result of get_channel_details
    new_channels_df,       \* rows that passed the filter
    display_df,            \* sorted rows
    summary,               \* None or Some(N): st.success of line 209
    table,                 \* rows given to st.dataframe
    csv                    \* None or Some(rows): st.download_button data

vars == <<api_key, new_channel_days, pc, youtube_service, build_attempted,
          messages, parse_warnings, max_results, results_fetched, channel_ids,
          video_ids, next_page_token, num_to_fetch, search_requests, collected,
          channel_ids_to_check, i, channel_data, channel_response,
          lookup_requests, all_channel_details, new_channels_df, display_df,
          summary, table, csv>>

searchLocals == <<max_results, results_fetched, channel_ids, video_ids,
                  next_page_token, num_to_fetch>>
fetchLocals == <<i, channel_data, channel_response>>
output == <<all_channel_details, new_channels_df, display_df, summary, table, csv>>

one_month_ago == today - new_channel_days

Init ==
    /\ api_key \in {"", "KEY"}
    /\ new_channel_days \in NewChannelDays
    /\ pc = "main"
    /\ youtube_service = None
    /\ build_attempted = FALSE
    /\ messages = {}
    /\ parse_warnings = {}
    /\ max_results = 0
    /\ results_fetched = 0
    /\ channel_ids = {}
    /\ video_ids = <<>>
    /\ next_page_token = None
    /\ num_to_fetch = 0
    /\ search_requests = "none"
    /\ collected = FALSE
    /\ channel_ids_to_check = <<>>
    /\ i = 0
    /\ channel_data = <<>>
    /\ channel_response = None
    /\ lookup_requests = {}
    /\ all_channel_details = <<>>
    /\ new_channels_df = <<>>
    /\ display_df = <<>>
    /\ summary = None
    /\ table = <<>>
    /\ csv = None

(* ---- get_youtube_service, main.py:64-80 ---- *)
BuildOutcomes == {"ok", "HttpError", "Exception"}

get_youtube_service_m(api_key_input, outcome) ==
    IF api_key_input = ""
    THEN [service |-> None, attempted |-> FALSE, msgs |-> {"warning: enter api key"}]
    ELSE IF outcome = "ok"
    THEN [service |-> Some("youtube"), attempted |-> TRUE, msgs |-> {}]
    ELSE IF outcome = "HttpError"
    THEN [service |-> None, attempted |-> TRUE, msgs |-> {"error: api key validation"}]
    ELSE [service |-> Some("youtube"), attempted |-> TRUE, msgs |-> {"error: unexpected (build)"}]

get_youtube_service(api_key_input, outcome) ==
    IF api_key_input = ""
    THEN [service |-> None, attempted |-> FALSE, msgs |-> {"warning: enter api key"}]
    ELSE IF outcome = "ok"
    THEN [service |-> Some("youtube"), attempted |-> TRUE, msgs |-> {}]
    ELSE IF outcome = "HttpError"
    THEN [service |-> None, attempted |-> TRUE, msgs |-> {"error: api key validation"}]
    ELSE [service |-> None, attempted |-> TRUE, msgs |-> {"error: unexpected (build)"}]

\* main.py:181-184 and 260-261
Main ==
    /\ pc = "main"
    /\ IF api_key # ""
       THEN \E outcome \in BuildOutcomes :
              LET r == get_youtube_service(api_key, outcome) IN
                /\ youtube_service' = r.service
                /\ build_attempted' = r.attempted
                /\ messages' = messages \cup r.msgs
                /\ pc' = IF r.service # None THEN "button" ELSE "done"
       ELSE /\ messages' = messages \cup {"info: enter api key in sidebar"}
            /\ pc' = "done"
            /\ UNCHANGED <<youtube_service, build_attempted>>
    /\ UNCHANGED <<api_key, new_channel_days, parse_warnings, searchLocals,
                   search_requests, collected, channel_ids_to_check, fetchLocals,
                   lookup_requests, output>>

\* main.py:185-188 and 257-258: the start button; pressing it calls
\* search_popular_videos(youtube_service, one_month_ago_iso, max_videos), lines 84-89
Button ==
    /\ pc = "button"
    /\ \E pressed \in BOOLEAN :
         IF pressed
         THEN \E max_videos \in 1..MaxVideos :
                /\ max_results' = max_videos
                /\ results_fetched' = 0
                /\ channel_ids' = {}
                /\ video_ids' = <<>>
                /\ next_page_token' = None
                /\ messages' = messages \cup {"write: searching"}
                /\ pc' = "search"
         ELSE /\ messages' = messages \cup {"info: press start"}
              /\ pc' = "done"
              /\ UNCHANGED <<max_results, results_fetched, channel_ids, video_ids,
                             next_page_token>>
    /\ UNCHANGED <<api_key, new_channel_days, youtube_service, build_attempted,
                   parse_warnings, num_to_fetch, search_requests, collected,
                   channel_ids_to_check, fetchLocals, lookup_requests, output>>

(* ---- search_popular_videos, main.py:82-124 ---- *)
SearchErrors == {"HttpError", "Exception"}
\* continuation tokens; the service names each further page by its own token
PageTokens == {"TOKEN_A", "TOKEN_B"}
\* what youtube.search().list(...).execute() can do: raise, or return a page
SearchResponses ==
    {[error |-> e, items |-> <<>>, nextPageToken |-> None] : e \in SearchErrors}
    \cup {[error |-> "none", items |-> its, nextPageToken |-> t] :
            its \in SeqsUpTo(ChannelIds, MaxPageItems),
            t \in {None} \cup {Some(tok) : tok \in PageTokens}}

\* the for loop of lines 104-109 from item k on; an item is the channel id of
\* its snippet, and video_ids gets one entry per counted item
RECURSIVE ScanItems_m(_, _, _, _)
ScanItems_m(items, k, st, maxr) ==
    IF k > Len(items) THEN st
    ELSE ScanItems_m(items, k + 1,
                     [video_ids |-> Append(st.video_ids, items[k]),
                      channel_ids |-> st.channel_ids \cup {items[k]},
                      results_fetched |-> st.results_fetched + 1], maxr)

RECURSIVE ScanItems(_, _, _, _)
ScanItems(items, k, st, maxr) ==
    IF k > Len(items) THEN st
    ELSE LET nxt == [video_ids |-> Append(st.video_ids, items[k]),
                     channel_ids |-> st.channel_ids \cup {items[k]},
                     results_fetched |-> st.results_fetched + 1]
         IN IF nxt.results_fetched >= maxr THEN nxt
            ELSE ScanItems(items, k + 1, nxt, maxr)

\* lines 118-124: what the function returns after an error, given the ids collected so far
SearchErrorResult_m(ids) == Perms(ids)
SearchErrorResult(ids) == {<<>>}

\* line 116: list(channel_ids); a set lists its elements in no particular order
SearchResult(ids) == Perms(ids)

BumpRequests(n) == IF n = "none" THEN "one" ELSE "many"

\* lines 188-194: the caller receives the list
ReturnToMain(res, msgs) ==
    /\ channel_ids_to_check' = res
    /\ max_results' = 0
    /\ results_fetched' = 0
    /\ channel_ids' = {}
    /\ video_ids' = <<>>
    /\ next_page_token' = None
    /\ num_to_fetch' = 0
    /\ IF res = <<>>
       THEN /\ messages' = messages \cup msgs \cup {"warning: no channels to check"}
            /\ pc' = "done"
       ELSE /\ messages' = messages \cup msgs
            /\ pc' = "fetch"

\* one iteration of the while loop, lines 92-113, with the handlers of 118-124
SearchPage ==
    /\ pc = "search"
    /\ results_fetched < max_results
    /\ search_requests' = BumpRequests(search_requests)
    /\ \E resp \in SearchResponses :
         IF resp.error # "none"
         THEN /\ \E res \in SearchErrorResult(channel_ids) :
                   ReturnToMain(res, {IF resp.error = "HttpError"
                                      THEN "error: search api error"
                                      ELSE "error: search unexpected error"})
              /\ UNCHANGED collected
         ELSE LET st == ScanItems(resp.items, 1,
                                  [video_ids |-> video_ids,
                                   channel_ids |-> channel_ids,
                                   results_fetched |-> results_fetched],
                                  max_results)
              IN /\ num_to_fetch' = Min(MAX_VIDEO_RESULTS_PER_PAGE,
                                        max_results - results_fetched)
                 /\ video_ids' = st.video_ids
                 /\ channel_ids' = st.channel_ids
                 /\ results_fetched' = st.results_fetched
                 /\ next_page_token' = resp.nextPageToken
                 /\ collected' = (collected \/ st.channel_ids # {})
                 /\ pc' = IF ~Truthy(resp.nextPageToken) \/ st.results_fetched >= max_results
                          THEN "search_return" ELSE "search"
                 /\ UNCHANGED <<max_results, channel_ids_to_check, messages>>
    /\ UNCHANGED <<api_key, new_channel_days, youtube_service, build_attempted,
                   parse_warnings, fetchLocals, lookup_requests, output>>

\* lines 115-116, then the caller's lines 188-194
SearchReturn ==
    /\ pc = "search_return"
    /\ \E res \in SearchResult(channel_ids) : ReturnToMain(res, {"write: unique channels found"})
    /\ UNCHANGED <<api_key, new_channel_days, youtube_service, build_attempted,
                   parse_warnings, search_requests, collected, fetchLocals,
                   lookup_requests, output>>

(* ---- get_channel_details, main.py:126-178 ---- *)
DateStrings == {ToString(t) : t \in Times} \cup {"x"}
CountStrings == {ToString(n) : n \in SubscriberCounts} \cup {"x"}

\* dateutil's isoparse: the time a well-formed string denotes, ValueError otherwise
isoparse(str) ==
    IF \E t \in Times : ToString(t) = str
    THEN [ok |-> TRUE, value |-> CHOOSE t \in Times : ToString(t) = str]
    ELSE [ok |-> FALSE, value |-> 0]

\* Python's int(str): ValueError unless the string is a numeral
int(str) ==
    IF \E n \in SubscriberCounts \cup {0} : ToString(n) = str
    THEN [ok |-> TRUE, value |-> CHOOSE n \in SubscriberCounts \cup {0} : ToString(n) = str]
    ELSE [ok |-> FALSE, value |-> 0]

\* an item of channel_response['items']: id, snippet.publishedAt, statistics.subscriberCount
ItemsFor(id) ==
    {[id |-> id, publishedAt |-> p, subscriberCount |-> c] :
        p \in {None} \cup {Some(d) : d \in DateStrings},
        c \in {None} \cup {Some(n) : n \in CountStrings}}

\* the service answers for the ids of the request, in their order, and may leave ids out
RECURSIVE ItemLists(_)
ItemLists(ids) ==
    IF ids = <<>> THEN {<<>>}
    ELSE LET rest == ItemLists(Tail(ids))
         IN rest \cup {<<it>> \o r : it \in ItemsFor(Head(ids)), r \in rest}

LookupErrors == {"HttpError", "Exception"}
\* what youtube.channels().list(...).execute() can do: raise, or return items
LookupResponses(batch_ids) ==
    {[error |-> e, items |-> <<>>] : e \in LookupErrors}
    \cup {[error |-> "none", items |-> its] : its \in ItemLists(batch_ids)}

\* lines 158-168 (the display-only fields are left out)
Record(item, published_at_dt, subscriber_count_int) ==
    [channel_id |-> item.id,
     published_at_str |-> item.publishedAt,
     published_at |-> published_at_dt,
     subscriber_count |-> subscriber_count_int]

\* the for loop of lines 139-168 from item k on.  acc.error becomes "Exception"
\* when a statement of the loop body raises something line 149 does not catch
RECURSIVE DecodeItems_m(_, _, _)
DecodeItems_m(items, k, acc) ==
    IF k > Len(items) THEN acc
    ELSE LET item == items[k]
             published_at_str == item.publishedAt
             subscriber_count == item.subscriberCount
         IN IF Truthy(published_at_str) /\ ~isoparse(published_at_str[1]).ok
            THEN [acc EXCEPT !.warnings = @ \cup {<<item.id, published_at_str[1]>>},
                             !.error = "Exception"]
            ELSE IF Truthy(subscriber_count) /\ ~int(subscriber_count[1]).ok
            THEN [acc EXCEPT !.error = "Exception"]
            ELSE DecodeItems_m(items, k + 1,
                   [acc EXCEPT !.data = Append(@,
                      Record(item,
                             IF Truthy(published_at_str)
                             THEN Some(isoparse(published_at_str[1]).value) ELSE None,
                             IF Truthy(subscriber_count)
                             THEN int(subscriber_count[1]).value ELSE 0))])

RECURSIVE DecodeItems(_, _, _)
DecodeItems(items, k, acc) ==
    IF k > Len(items) THEN acc
    ELSE LET item == items[k]
             published_at_str == item.publishedAt
             subscriber_count == item.subscriberCount
         IN IF Truthy(published_at_str) /\ ~isoparse(published_at_str[1]).ok
            THEN \* lines 149-152: warn and continue with the next item
                 DecodeItems(items, k + 1,
                   [acc EXCEPT !.warnings = @ \cup {<<item.id, published_at_str[1]>>}])
            ELSE IF Truthy(subscriber_count) /\ ~int(subscriber_count[1]).ok
            THEN \* line 156: int() raises ValueError, caught at line 174
                 [acc EXCEPT !.error = "Exception"]
            ELSE DecodeItems(items, k + 1,
                   [acc EXCEPT !.data = Append(@,
                      Record(item,
                             IF Truthy(published_at_str)
                             THEN Some(isoparse(published_at_str[1]).value) ELSE None,
                             IF Truthy(subscriber_count)
                             THEN int(subscriber_count[1]).value ELSE 0))])

\* the try statement of lines 133-176 for one batch: channel_data afterwards,
\* the parse warnings and the error messages it shows
BatchResult_m(data, resp) ==
    IF resp.error = "HttpError"
    THEN [data |-> <<>>, warnings |-> {}, msgs |-> {"error: lookup api error"}]
    ELSE IF resp.error = "Exception"
    THEN [data |-> <<>>, warnings |-> {}, msgs |-> {"error: lookup unexpected error"}]
    ELSE LET r == DecodeItems(resp.items, 1,
                              [data |-> data, warnings |-> {}, error |-> "none"])
         IN [data |-> r.data, warnings |-> r.warnings,
             msgs |-> IF r.error = "none" THEN {}
                      ELSE {"error: lookup unexpected error"}]

BatchResult(data, resp) ==
    IF resp.error = "HttpError"
    THEN [data |-> data, warnings |-> {}, msgs |-> {"error: lookup api error"}]
    ELSE IF resp.error = "Exception"
    THEN [data |-> data, warnings |-> {}, msgs |-> {"error: lookup unexpected error"}]
    ELSE LET r == DecodeItems(resp.items, 1,
                              [data |-> data, warnings |-> {}, error |-> "none"])
         IN [data |-> r.data, warnings |-> r.warnings,
             msgs |-> IF r.error = "none" THEN {}
                      ELSE {"error: lookup unexpected error"}]

\* line 131: channel_ids[i:i + MAX_CHANNELS_TO_FETCH_PER_CALL]
BatchIds(ids, start) ==
    SubSeq(ids, start + 1, Min(start + MAX_CHANNELS_TO_FETCH_PER_CALL, Len(ids)))

\* one iteration of the for loop of line 130; after the last one the function
\* returns (line 178) and the caller checks the list (lines 194-198)
FetchBatch ==
    /\ pc = "fetch"
    /\ i < Len(channel_ids_to_check)
    /\ \E resp \in LookupResponses(BatchIds(channel_ids_to_check, i)) :
         LET r == BatchResult(channel_data, resp)
             next_i == i + MAX_CHANNELS_TO_FETCH_PER_CALL
             returns == next_i >= Len(channel_ids_to_check)
         IN /\ lookup_requests' = lookup_requests \cup {i}
            /\ channel_response' = Some(resp)
            /\ channel_data' = r.data
            /\ parse_warnings' = parse_warnings \cup r.warnings
            /\ i' = next_i
            /\ IF returns
               THEN /\ all_channel_details' = r.data
                    /\ IF r.data = <<>>
                       THEN /\ messages' = messages \cup r.msgs \cup
                                             {"write: fetching", "warning: lookup failed"}
                            /\ pc' = "done"
                       ELSE /\ messages' = messages \cup r.msgs \cup {"write: fetching"}
                            /\ pc' = "filter"
               ELSE /\ messages' = messages \cup r.msgs \cup {"write: fetching"}
                    /\ pc' = "fetch"
                    /\ UNCHANGED all_channel_details
    /\ UNCHANGED <<api_key, new_channel_days, youtube_service, build_attempted,
                   searchLocals, search_requests, collected, channel_ids_to_check,
                   new_channels_df, display_df, summary, table, csv>>

(* ---- filter, sort and presentation, main.py:199-256 ---- *)
\* line 203: df.dropna(subset=['published_at'])
dropna(df) ==
    LET present(r) == r.published_at # None
    IN SelectSeq(df, present)

\* line 206: published_at >= one_month_ago
is_new_m(published_at_dt, cutoff) == published_at_dt > cutoff
is_new(published_at_dt, cutoff) == published_at_dt >= cutoff

\* line 207: df_filtered[df_filtered['is_new']]
FilterNew(df_filtered, cutoff) ==
    LET keep(r) == is_new(r.published_at[1], cutoff)
    IN SelectSeq(df_filtered, keep)

\* line 209: the count in st.success
SummaryCount_m(df, new_rows) == Len(df)
SummaryCount(df, new_rows) == Len(new_rows)

IsDescending(rows) ==
    \A a, b \in DOMAIN rows : a < b => rows[a].subscriber_count >= rows[b].subscriber_count

\* the rows of a frame in every order
Reorderings(rows) ==
    {[k \in DOMAIN rows |-> rows[p[k]]] : p \in Perms(DOMAIN rows)}

\* line 225: sort_values(by='subscriber_count', ascending=False).  kind is left
\* at pandas' default 'quicksort', which is not a stable sort: rows with equal
\* subscriber_count come out in an order the library does not fix
sort_values_m(rows) == {rows}
sort_values(rows) == {s \in Reorderings(rows) : IsDescending(s)}

\* line 213
ChannelLink(id) == <<"https://www.youtube.com/channel/", id>>
\* line 215: tz_localize(None) and strftime
strftime(t) == ToString(t)
\* lines 227-236: the displayed columns of the model's fields
DisplayColumns(rows) ==
    [k \in DOMAIN rows |->
        [channel_link |-> ChannelLink(rows[k].channel_id),
         opened |-> strftime(rows[k].published_at[1])]]

\* lines 211-256: what is shown for the rows that passed the filter
Presentation_m(new_rows) ==
    {[display_df |-> d, table |-> DisplayColumns(d), csv |-> Some(DisplayColumns(d)),
      msgs |-> {}] : d \in sort_values(new_rows)}

Presentation(new_rows) ==
    IF new_rows # <<>>
    THEN {[display_df |-> d, table |-> DisplayColumns(d), csv |-> Some(DisplayColumns(d)),
           msgs |-> {}] : d \in sort_values(new_rows)}
    ELSE {[display_df |-> <<>>, table |-> <<>>, csv |-> None,
           msgs |-> {"info: no new channel in range"}]}

\* lines 199-256
FilterAndPresent ==
    /\ pc = "filter"
    /\ LET df == all_channel_details
           df_filtered == dropna(df)
           new_rows == FilterNew(df_filtered, one_month_ago)
       IN /\ new_channels_df' = new_rows
          /\ summary' = Some(SummaryCount(df, new_rows))
          /\ \E out \in Presentation(new_rows) :
               /\ display_df' = out.display_df
               /\ table' = out.table
               /\ csv' = out.csv
               /\ messages' = messages \cup out.msgs
    /\ i' = 0
    /\ channel_data' = <<>>
    /\ channel_response' = None
    /\ pc' = "done"
    /\ UNCHANGED <<api_key, new_channel_days, youtube_service, build_attempted,
                   parse_warnings, searchLocals, search_requests, collected,
                   channel_ids_to_check, lookup_requests, all_channel_details>>

Next ==
    \/ Main
    \/ Button
    \/ SearchPage
    \/ SearchReturn
    \/ FetchBatch
    \/ FilterAndPresent

Spec == Init /\ [][Next]_vars

\* the script is one thread of blocking calls: whatever step is next happens
FairSpec == Spec /\ WF_vars(Next)

(* ======================= properties ======================= *)
HasRow(id) == \E j \in DOMAIN table : table[j].channel_link = ChannelLink(id)
Started == "write: searching" \in messages
SearchFailed ==
    messages \cap {"error: search api error", "error: search unexpected error"} # {}
BuildFailed ==
    messages \cap {"error: api key validation", "error: unexpected (build)"} # {}
NothingShown == display_df = <<>> /\ table = <<>> /\ csv = None /\ summary = None

\* C1: a fetched record is in the presented table iff its creation timestamp
\* is present and is at or after the cutoff (now minus new_channel_days); a
\* record without a timestamp, and an item whose timestamp did not parse, is
\* never in the table.
C1_FilterIff ==
    pc = "done" =>
      /\ \A k \in DOMAIN all_channel_details :
           LET r == all_channel_details[k]
           IN HasRow(r.channel_id) <=>
                (r.published_at # None /\ r.published_at[1] >= today - new_channel_days)
      /\ \A w \in parse_warnings : ~HasRow(w[1])
      /\ \A j \in DOMAIN table :
           \E k \in DOMAIN all_channel_details :
             table[j].channel_link = ChannelLink(all_channel_details[k].channel_id)

C1_Witness ==
    /\ pc = "done"
    /\ \E k \in DOMAIN all_channel_details :
         /\ all_channel_details[k].published_at = Some(today - new_channel_days)
         /\ HasRow(all_channel_details[k].channel_id)
    /\ \E k \in DOMAIN all_channel_details :
         /\ all_channel_details[k].published_at = None
         /\ ~HasRow(all_channel_details[k].channel_id)
    /\ parse_warnings # {}

\* C2: without an error the search counts at most max_results items over all
\* pages, and what it returns lists the distinct channel ids of the counted
\* items, each exactly once.
C2_ScanBoundAndDedup ==
    [][/\ results_fetched' <= max_results'
       /\ Len(video_ids') = results_fetched'
       /\ pc = "search_return" =>
            /\ Range(channel_ids_to_check') = Range(video_ids)
            /\ Cardinality(Range(channel_ids_to_check')) = Len(channel_ids_to_check')]_vars

C2_Witness ==
    /\ pc = "search_return"
    /\ search_requests = "many"
    /\ results_fetched = max_results
    /\ Cardinality(Range(video_ids)) < Len(video_ids)
    /\ Cardinality(Range(video_ids)) > 1

\* C3: once a search request has raised, on the first or a later page, the
\* search is over with an empty result: ids of earlier pages are dropped, no
\* channel lookup is requested and nothing is shown as new.
C3_SearchErrorEmpty ==
    SearchFailed =>
      /\ pc = "done"
      /\ channel_ids_to_check = <<>>
      /\ lookup_requests = {}
      /\ all_channel_details = <<>>
      /\ new_channels_df = <<>>
      /\ NothingShown
      /\ "warning: no channels to check" \in messages

C3_Witness ==
    /\ SearchFailed
    /\ collected
    /\ search_requests = "many"

\* the items of a response at which a statement of the loop body raises an
\* error that only the batch-level handler catches
RaisesAt(items) ==
    {k \in DOMAIN items :
       /\ ~(Truthy(items[k].publishedAt) /\ ~isoparse(items[k].publishedAt[1]).ok)
       /\ Truthy(items[k].subscriberCount)
       /\ ~int(items[k].subscriberCount[1]).ok}
UnparsedAt(items) ==
    {k \in DOMAIN items :
       Truthy(items[k].publishedAt) /\ ~isoparse(items[k].publishedAt[1]).ok}
ExpectedRecord(item) ==
    [channel_id |-> item.id,
     published_at_str |-> item.publishedAt,
     published_at |-> IF item.publishedAt = None THEN None
                      ELSE Some(isoparse(item.publishedAt[1]).value),
     subscriber_count |-> IF item.subscriberCount = None THEN 0
                          ELSE int(item.subscriberCount[1]).value]
\* the records of the items before position n whose timestamp parses or is missing
RecordsBefore(items, n) ==
    LET idx == {k \in 1..(n - 1) : k \notin UnparsedAt(items)}
        RECURSIVE build(_)
        build(k) == IF k >= n THEN <<>>
                    ELSE IF k \in idx THEN <<ExpectedRecord(items[k])>> \o build(k + 1)
                    ELSE build(k + 1)
    IN build(1)
FirstRaise(items) ==
    IF RaisesAt(items) = {} THEN Len(items) + 1
    ELSE CHOOSE k \in RaisesAt(items) : \A m \in RaisesAt(items) : k <= m
BatchFailed(resp) == resp.error # "none" \/ RaisesAt(resp.items) # {}
BatchStepOK ==
    /\ i \in lookup_requests'
    /\ i' = i + MAX_CHANNELS_TO_FETCH_PER_CALL
    /\ IF i' < Len(channel_ids_to_check)
       THEN pc' = "fetch"
       ELSE pc' \in {"filter", "done"} /\ all_channel_details' = channel_data'

\* C4 as stated: a batch in which the request or the decoding of an item
\* raises contributes no record, later batches are still requested, and the
\* list is the records of the batches without error, in batch order.
C4_Original ==
    [][pc = "fetch" =>
         LET resp == channel_response'[1]
         IN /\ BatchStepOK
            /\ channel_data' =
                 IF BatchFailed(resp) THEN channel_data
                 ELSE channel_data \o RecordsBefore(resp.items, Len(resp.items) + 1)]_vars

\* C4 amended: a batch whose request raises contributes no record; a batch in
\* which decoding an item raises contributes the records of the items decoded
\* before that item; later batches are still requested; the list is these
\* contributions in batch order.
C4_Amended ==
    [][pc = "fetch" =>
         LET resp == channel_response'[1]
         IN /\ BatchStepOK
            /\ channel_data' =
                 IF resp.error # "none" THEN channel_data
                 ELSE channel_data \o RecordsBefore(resp.items, FirstRaise(resp.items))]_vars

C4_Witness ==
    /\ pc = "fetch"
    /\ i > 0
    /\ channel_response # None
    /\ channel_response[1].error = "none"
    /\ RaisesAt(channel_response[1].items) = {2}
    /\ Len(channel_data) = 1

\* C5 as stated: the presented rows are the surviving rows sorted by
\* subscriber count, descending, and rows with equal counts keep the relative
\* order they had in the fetched list.
C5_Original ==
    pc = "done" =>
      \E p \in Perms(DOMAIN new_channels_df) :
        /\ display_df = [k \in DOMAIN new_channels_df |-> new_channels_df[p[k]]]
        /\ \A a, b \in DOMAIN new_channels_df :
             a < b =>
               \/ new_channels_df[p[a]].subscriber_count > new_channels_df[p[b]].subscriber_count
               \/ /\ new_channels_df[p[a]].subscriber_count = new_channels_df[p[b]].subscriber_count
                  /\ p[a] < p[b]

\* C5 amended: the presented rows are the surviving rows, each once, in
\* descending order of subscriber count; the order among rows with equal
\* counts is not fixed.
C5_Amended ==
    pc = "done" =>
      /\ display_df \in Reorderings(new_channels_df)
      /\ \A a, b \in DOMAIN display_df :
           a < b => display_df[a].subscriber_count >= display_df[b].subscriber_count
      /\ table = DisplayColumns(display_df)

C5_Witness ==
    /\ pc = "done"
    /\ Len(display_df) = 3
    /\ display_df # new_channels_df
    /\ display_df[1].subscriber_count > display_df[2].subscriber_count
    /\ display_df[2].subscriber_count = display_df[3].subscriber_count

SurvivorCount ==
    Cardinality({k \in DOMAIN all_channel_details :
                   /\ all_channel_details[k].published_at # None
                   /\ all_channel_details[k].published_at[1] >= today - new_channel_days})

\* C6 as stated: every run started with a working client ends with the
\* summary "N new channels found", N the number of surviving rows, whatever
\* the search and the lookup returned.
C6_Original ==
    (pc = "done" /\ Started) => summary = Some(SurvivorCount)

\* C6 amended: a started run in which the lookup returned at least one record
\* ends with the summary, N the number of surviving rows, also when N is 0; a
\* run in which the search or the lookup returned nothing ends with a warning
\* and without a summary.
C6_Amended ==
    (pc = "done" /\ Started) =>
      /\ all_channel_details # <<>> => summary = Some(SurvivorCount)
      /\ all_channel_details = <<>> =>
           /\ summary = None
           /\ messages \cap {"warning: no channels to check", "warning: lookup failed"} # {}

C6_Witness ==
    /\ pc = "done"
    /\ Len(all_channel_details) > 1
    /\ summary = Some(0)

\* C7: when nothing passed the filter (or nothing was found or fetched) no
\* table row and no CSV export exist; an export exists only together with a
\* non-empty table rendered from the same rows.
C7_NoExportWhenEmpty ==
    /\ csv # None => table # <<>> /\ csv = Some(table) /\ table = DisplayColumns(display_df)
    /\ (pc = "done" /\ SurvivorCount = 0) => table = <<>> /\ csv = None
    /\ pc # "done" => table = <<>> /\ csv = None

C7_Witness ==
    /\ pc = "done"
    /\ all_channel_details # <<>>
    /\ SurvivorCount = 0
    /\ table = <<>>
    /\ csv = None

\* C8: a search or lookup request is issued only with a non-empty credential
\* and a constructed client; with an empty credential no construction is
\* attempted; a failed construction is reported, yields no client and skips
\* every later stage.
C8_NoRequestWithoutClient ==
    /\ (search_requests # "none" \/ lookup_requests # {}) =>
         api_key # "" /\ build_attempted /\ youtube_service # None /\ ~BuildFailed
    /\ api_key = "" => ~build_attempted /\ youtube_service = None
    /\ \A o \in BuildOutcomes :
         LET r == get_youtube_service("", o)
         IN r.service = None /\ ~r.attempted /\ r.msgs # {}
    /\ BuildFailed =>
         /\ youtube_service = None
         /\ pc = "done"
         /\ ~Started
         /\ search_requests = "none"
         /\ lookup_requests = {}
         /\ NothingShown

C8_Witness ==
    /\ pc = "done"
    /\ build_attempted
    /\ "error: unexpected (build)" \in messages
    /\ youtube_service = None

\* C9: the paging loop requests a page only while fewer than max_results
\* items are counted and (after the first request) the previous response had
\* a continuation token, and for every sequence of responses it returns.
C9_Terminates ==
    /\ [][pc = "search" =>
            /\ results_fetched < max_results
            /\ search_requests = "none" \/ Truthy(next_page_token)]_vars
    /\ (pc = "search") ~> (pc # "search")

\* C10: an item whose creation timestamp does not parse is skipped with a
\* warning naming its id and raw string; the other items of the batch, before
\* and after it, still become records, and the remaining batches are processed.
\* (The items meant are those the loop decodes: all of them when no item
\* raises at the batch level, else those before the first item that does.)
C10_ParseFailureSkipsOneItem ==
    [][pc = "fetch" =>
         LET resp == channel_response'[1]
             items == resp.items
             decoded == 1..(FirstRaise(items) - 1)
             unparsed == UnparsedAt(items) \cap decoded
             added == SubSeq(channel_data', Len(channel_data) + 1, Len(channel_data'))
         IN (resp.error = "none" /\ unparsed # {}) =>
              /\ \A k \in unparsed :
                   /\ <<items[k].id, items[k].publishedAt[1]>> \in parse_warnings'
                   /\ \A n \in DOMAIN added : added[n].channel_id # items[k].id
              /\ \A k \in decoded \ unparsed :
                   \E n \in DOMAIN added : added[n] = ExpectedRecord(items[k])
              /\ Len(added) = Cardinality(decoded \ unparsed)
              /\ SubSeq(channel_data', 1, Len(channel_data)) = channel_data
              /\ BatchStepOK]_vars

C10_Witness ==
    /\ pc = "fetch"
    /\ channel_response # None
    /\ channel_response[1].error = "none"
    /\ Len(channel_response[1].items) = 2
    /\ UnparsedAt(channel_response[1].items) = {1}
    /\ RaisesAt(channel_response[1].items) = {}
    /\ Len(channel_data) = 1
    /\ parse_warnings # {}

====
